---------------------------- MODULE Spec2Model ----------------------------
(***************************************************************************)
(* A model of qtools: qtools/submitter.py (class Submitter, which renders  *)
(* a PBS or SGE submission script from a list of commands and hands it to  *)
(* qsub) and qtools/parser.py (commands_from_sh, which reads the commands  *)
(* of an array script back).                                               *)
(*                                                                         *)
(* The code is Python 2 (dict.iteritems, a str HOSTNAME, "/" on ints       *)
(* feeding range): "/" is modelled as floor division.                      *)
(*                                                                         *)
(* Text is modelled character by character: a Python string is a sequence  *)
(* of one-character strings, a file is the sequence of the strings written *)
(* to it.  An optional value is a set: {} is Python's None, {v} is v.      *)
(***************************************************************************)
EXTENDS Integers, Sequences, FiniteSets, TLC

VARIABLES
    HOSTNAME,     \* submitter.py:13, the module-level global
    call,         \* the keyword arguments of the top-level Submitter(...) call
    pc,           \* "idle" | "chunks" | "done" | "raised": where that call is
    self,         \* the fields of the top-level Submitter object
    chunk,        \* the loop variable of __init__'s chunk loop (line 132)
    files,        \* the file system: file name -> the strings written to it
    qsub_calls,   \* the runs of qsub, in order: the script handed over, the output
    subs,         \* the Submitters constructed by another Submitter, in order
    renders,      \* the scripts written, in order: whose job() wrote which file
    exc,          \* the exception the last Submitter call raised, "none" if it returned
    adds,         \* the add_resource calls the caller made, in order
    njobs,        \* how many times the caller has called job() itself
    parsed        \* what the last commands_from_sh call was given and returned

vars == <<HOSTNAME, call, pc, self, chunk, files, qsub_calls, subs, renders, exc,
          adds, njobs, parsed>>

(***************************************************************************)
(* Python values                                                           *)
(***************************************************************************)
None == {}
Some(v) == {v}
The(o) == CHOOSE v \in o : TRUE

\* A value that may be a str or a list says which it is: both are sequences
PyStr(s) == [str |-> s]
PyList(l) == [list |-> l]

\* isinstance(x, six.string_types)
is_string(x) == "str" \in DOMAIN x

\* str(None), as "%s" % None and '{}'.format(None) give it
NoneStr == <<"N","o","n","e">>

DigitChars == <<"0","1","2","3","4","5","6","7","8","9">>

\* \d of the re module, for the characters the model writes
isdigit(c) == \E d \in 1..10 : DigitChars[d] = c

DigitVal(c) == (CHOOSE d \in 1..10 : DigitChars[d] = c) - 1

\* "%d" % n, '{}'.format(n) and str(n) of a non-negative int
RECURSIVE format_d(_)
format_d(n) ==
    IF n < 10 THEN <<DigitChars[n + 1]>>
    ELSE format_d(n \div 10) \o <<DigitChars[(n % 10) + 1]>>

\* int(s) of a string of decimal digits
RECURSIVE int(_)
int(s) ==
    IF Len(s) = 0 THEN 0
    ELSE 10 * int(SubSeq(s, 1, Len(s) - 1)) + DigitVal(s[Len(s)])

\* sub in s
contains(s, sub) ==
    \E i \in 1..(Len(s) - Len(sub) + 1) : SubSeq(s, i, i + Len(sub) - 1) = sub

\* s.startswith(prefix)
startswith(s, prefix) ==
    Len(s) >= Len(prefix) /\ SubSeq(s, 1, Len(prefix)) = prefix

\* s.replace(old, new): every non-overlapping occurrence, left to right
RECURSIVE replace(_, _, _)
replace(s, old, new) ==
    IF Len(s) < Len(old) THEN s
    ELSE IF SubSeq(s, 1, Len(old)) = old
         THEN new \o replace(SubSeq(s, Len(old) + 1, Len(s)), old, new)
         ELSE <<s[1]>> \o replace(Tail(s), old, new)

\* s.rstrip(chars): chars is a set of characters, not a suffix
RECURSIVE rstrip(_, _)
rstrip(s, chars) ==
    IF Len(s) > 0 /\ s[Len(s)] \in chars
    THEN rstrip(SubSeq(s, 1, Len(s) - 1), chars)
    ELSE s

RECURSIVE lstrip(_, _)
lstrip(s, chars) ==
    IF Len(s) > 0 /\ s[1] \in chars THEN lstrip(Tail(s), chars) ELSE s

\* s.strip(chars)
strip(s, chars) == lstrip(rstrip(s, chars), chars)

\* s.split(sep) for a one-character sep: the pieces between all occurrences
RECURSIVE split(_, _)
split(s, sep) ==
    IF \A i \in 1..Len(s) : s[i] /= sep THEN <<s>>
    ELSE LET i == CHOOSE k \in 1..Len(s) :
                      s[k] = sep /\ \A j \in 1..(k - 1) : s[j] /= sep
         IN  <<SubSeq(s, 1, i - 1)>> \o split(SubSeq(s, i + 1, Len(s)), sep)

\* the concatenation of a sequence of strings (by halves: the depth of the
\* recursion stays logarithmic in the length)
RECURSIVE join(_)
join(ss) ==
    IF Len(ss) = 0 THEN <<>>
    ELSE IF Len(ss) = 1 THEN ss[1]
    ELSE LET h == Len(ss) \div 2
         IN  join(SubSeq(ss, 1, h)) \o join(SubSeq(ss, h + 1, Len(ss)))

(***************************************************************************)
(* String literals of the source                                           *)
(***************************************************************************)
NL == <<"\n">>
DotSh == <<".","s","h">>
DotOut == <<".","o","u","t">>
DotErr == <<".","e","r","r">>
PBS == <<"P","B","S">>
SGE == <<"S","G","E">>
oolite == <<"o","o","l","i","t","e">>
compute == <<"c","o","m","p","u","t","e">>
tscc == <<"t","s","c","c">>

Shebang == <<"#","!","/","b","i","n","/","b","a","s","h","\n">>
OptN == <<" ","-","N"," ">>
OptO == <<" ","-","o"," ">>
OptE == <<" ","-","e"," ">>
OptV == <<" ","-","V","\n">>
OptWalltime == <<" ","-","l"," ","w","a","l","l","t","i","m","e","=">>
OptNodes == <<" ","-","l"," ","n","o","d","e","s","=">>
ColonPpn == <<":","p","p","n","=">>
OptA == <<" ","-","A"," ">>
OptQ == <<" ","-","q"," ">>
OptGroupList == <<" ","-","W"," ","g","r","o","u","p","_","l","i","s","t","=","c","o","n","d","o","-","g","r","o","u","p","\n">>
OptT == <<" ","-","t"," ","1","-">>
Percent == <<"%">>
GoToDir == <<"\n","#"," ","G","o"," ","t","o"," ","t","h","e"," ","d","i","r","e","c","t","o","r","y"," ","f","r","o","m"," ","w","h","i","c","h"," ","t","h","e"," ","s","c","r","i","p","t"," ","w","a","s"," ","c","a","l","l","e","d","\n">>
CdWorkdir == <<"c","d"," ","$","P","B","S","_","O","_","W","O","R","K","D","I","R","\n">>
OptShell == <<" ","-","S"," ","/","b","i","n","/","b","a","s","h","\n">>
OptCwd == <<" ","-","c","w","d","\n">>
CmdOpen == <<"c","m","d","[">>
CmdMid == <<"]","=","\"">>
CmdClose == <<"\"","\n">>
EvalOpen == <<"e","v","a","l"," ","$","{","c","m","d","[">>
EvalClose == <<"]","}","\n">>
PBS_ARRAYID == <<"$","P","B","S","_","A","R","R","A","Y","I","D">>
SGE_TASK_ID == <<"$","S","G","E","_","T","A","S","K","_","I","D">>
PrefixPBS == <<"#","P","B","S">>
PrefixSGE == <<"#","$">>
DashL == <<"-","l">>
bigmem == <<"b","i","g","m","e","m">>
h_vmem == <<"h","_","v","m","e","m","=","1","6","G">>
DefaultWalltime == <<"0",":","3","0",":","0","0">>
DefaultQueue == <<"h","o","m","e">>
DefaultAccount == <<"y","e","o","-","g","r","o","u","p">>
glean == <<"g","l","e","a","n">>
condo == <<"c","o","n","d","o">>
cmd == <<"c","m","d">>
Space == <<" ">>

(***************************************************************************)
(* submitter.py                                                            *)
(***************************************************************************)
\* Maximum number of jobs in an array job
MAX_ARRAY_JOBS == 500

\* the processors-per-node limit of __init__'s check
MAX_PPN == 16

\* the parameters of Submitter.__init__ (the self parameter aside)
InitParams ==
    {"commands", "job_name", "queue_type", "sh", "array", "nodes", "ppn",
     "walltime", "queue", "account", "out", "err", "max_running", "submit",
     "chunksize"}

\* the value a call binds to a parameter: the keyword's, else the default
arg(kw, name, default) == IF name \in DOMAIN kw THEN kw[name] ELSE default

\* str(x) of an optional string
str(o) == IF o = None THEN NoneStr ELSE The(o)

\* the truth value Python gives an optional bool
truthy(o) == TRUE \in o

array(o) ==
    IF o._array /= None THEN o._array
    ELSE IF contains(HOSTNAME, oolite) \/ contains(HOSTNAME, compute)
         THEN Some(TRUE)
         ELSE IF contains(HOSTNAME, tscc) THEN Some(FALSE) ELSE None

queue_type(o) ==
    IF o._queue_type /= None THEN o._queue_type
    ELSE IF contains(HOSTNAME, oolite) \/ contains(HOSTNAME, compute)
         THEN Some(SGE)
         ELSE IF contains(HOSTNAME, tscc) THEN Some(PBS) ELSE None

number_jobs(o) == IF truthy(array(o)) THEN Len(o.commands) ELSE 1

queue_param_prefix(o) ==
    IF queue_type(o) = Some(PBS) THEN Some(PrefixPBS)
    ELSE IF queue_type(o) = Some(SGE) THEN Some(PrefixSGE) ELSE None

array_job_identifier(o) ==
    IF queue_type(o) = Some(PBS) THEN Some(PBS_ARRAYID)
    ELSE IF queue_type(o) = Some(SGE) THEN Some(SGE_TASK_ID) ELSE None

\* add_resource, were a value a keyword already has not added again
add_resource_once(res, kw, value) ==
    IF kw \in DOMAIN res
    THEN IF \E j \in 1..Len(res[kw]) : res[kw][j] = value THEN res
         ELSE [res EXCEPT ![kw] = Append(@, value)]
    ELSE [k \in DOMAIN res \cup {kw} |-> IF k = kw THEN <<value>> ELSE res[k]]

\* self.additional_resources[kw].append(value) on a defaultdict(list)
add_resource(res, kw, value) ==
    IF kw \in DOMAIN res THEN [res EXCEPT ![kw] = Append(@, value)]
    ELSE [k \in DOMAIN res \cup {kw} |-> IF k = kw THEN <<value>> ELSE res[k]]

\* the orders in which a dict may hand out its keys (iteritems fixes none)
KeyOrders(res) ==
    {s \in [1..Cardinality(DOMAIN res) -> DOMAIN res] :
        \A i, j \in DOMAIN s : i /= j => s[i] /= s[j]}

\* the lines _write_additional_resources writes, the keys taken in `order`
_write_additional_resources(o, order) ==
    join([i \in 1..Len(order) |->
            [j \in 1..Len(o.additional_resources[order[i]]) |->
                str(queue_param_prefix(o)) \o Space \o order[i] \o Space
                    \o o.additional_resources[order[i]][j] \o NL]])

_write_pbs(o, order) ==
    LET p == str(queue_param_prefix(o))
    IN  <<p \o OptWalltime \o o.walltime \o NL,
          p \o OptNodes \o format_d(o.nodes) \o ColonPpn \o format_d(o.ppn) \o NL,
          p \o OptA \o o.account \o NL,
          p \o OptQ \o o.queue \o NL>>
        \o (IF o.queue = glean \/ o.queue = condo
            THEN <<p \o OptGroupList>> ELSE <<>>)
        \o _write_additional_resources(o, order)
        \o (IF truthy(array(o))
            THEN IF o.max_running /= None
                 THEN <<p \o OptT \o format_d(number_jobs(o)) \o Percent
                          \o format_d(The(o.max_running)) \o NL>>
                 ELSE <<p \o OptT \o format_d(number_jobs(o)) \o NL>>
            ELSE <<>>)
        \o <<GoToDir, CdWorkdir>>

_write_sge(o, order) ==
    LET p == str(queue_param_prefix(o))
    IN  <<p \o OptShell, p \o OptCwd>> \o _write_additional_resources(o, order)

\* write_commands, were the command table numbered from 0
write_commands_from_zero(o) ==
    IF truthy(array(o))
    THEN [i \in 1..Len(o.commands) |->
            CmdOpen \o format_d(i - 1) \o CmdMid \o o.commands[i] \o CmdClose]
         \o <<EvalOpen \o str(array_job_identifier(o)) \o EvalClose>>
    ELSE [i \in 1..Len(o.commands) |-> o.commands[i] \o NL]

\* lines 261-270 of job: the command table and its dispatch line, or the
\* commands verbatim
write_commands(o) ==
    IF truthy(array(o))
    THEN [i \in 1..Len(o.commands) |->
            CmdOpen \o format_d(i) \o CmdMid \o o.commands[i] \o CmdClose]
         \o <<EvalOpen \o str(array_job_identifier(o)) \o EvalClose>>
    ELSE [i \in 1..Len(o.commands) |-> o.commands[i] \o NL]

\* lines 245-273 of job: everything written to sh_file, write by write
script(o, order) ==
    LET p == str(queue_param_prefix(o))
    IN  <<Shebang,
          p \o OptN \o o.job_name \o NL,
          p \o OptO \o o.out_filename \o NL,
          p \o OptE \o o.err_filename \o NL,
          p \o OptV>>
        \o (IF queue_type(o) = Some(SGE) THEN _write_sge(o, order)
            ELSE IF queue_type(o) = Some(PBS) THEN _write_pbs(o, order)
            ELSE <<>>)
        \o write_commands(o)
        \o <<NL>>

\* re.findall(r'\d+', output): the maximal runs of digits, left to right
RECURSIVE findall_digits(_)
findall_digits(s) ==
    IF \A i \in 1..Len(s) : ~isdigit(s[i]) THEN <<>>
    ELSE LET a == CHOOSE k \in 1..Len(s) :
                      isdigit(s[k]) /\ \A j \in 1..(k - 1) : ~isdigit(s[j])
             b == CHOOSE k \in a..Len(s) :
                      /\ \A j \in a..k : isdigit(s[j])
                      /\ (k = Len(s) \/ ~isdigit(s[k + 1]))
         IN  <<SubSeq(s, a, b)>> \o findall_digits(SubSeq(s, b + 1, Len(s)))

\* open(name, 'w') ... close(): the file holds what was written, and nothing else
open_w(fs, name, writes) ==
    [f \in DOMAIN fs \cup {name} |-> IF f = name THEN writes ELSE fs[f]]

\* ppn_rejected, were the limit applied only to a dialect the caller names
ppn_rejected_named_only(o, ppn) == o._queue_type = Some(PBS) /\ ppn > MAX_PPN

\* line 102 of __init__: the check that raises ValueError
ppn_rejected(o, ppn) == queue_type(o) = Some(PBS) /\ ppn > MAX_PPN

\* lines 93-124 of __init__: the object a call's arguments give, or the
\* exception the call raises (a ValueError leaves the object with the fields
\* set before line 102; a keyword __init__ does not have is a TypeError
\* before the body runs)
new(kw) ==
    LET o0 == [_array |-> arg(kw, "array", None),
               _queue_type |-> arg(kw, "queue_type", Some(PBS))]
        res0 == <<>>
        res1 == IF queue_type(o0) = Some(SGE)
                THEN add_resource(add_resource(res0, DashL, bigmem), DashL, h_vmem)
                ELSE res0
        ppn == arg(kw, "ppn", 1)
        sh_filename == IF arg(kw, "sh", None) = None
                       THEN kw.job_name \o DotSh ELSE The(kw.sh)
    IN  IF ~(DOMAIN kw \subseteq InitParams) THEN [exc |-> "TypeError"]
        ELSE IF ppn_rejected(o0, ppn)
        THEN [exc |-> "ValueError",
              obj |-> [_array |-> o0._array,
                       _queue_type |-> o0._queue_type,
                       additional_resources |-> res1]]
        ELSE [exc |-> "none",
              obj |-> [_array |-> o0._array,
                       _queue_type |-> o0._queue_type,
                       additional_resources |-> res1,
                       sh_filename |-> sh_filename,
                       commands |-> IF is_string(kw.commands)
                                    THEN <<kw.commands.str>>
                                    ELSE kw.commands.list,
                       job_name |-> kw.job_name,
                       nodes |-> arg(kw, "nodes", 1),
                       ppn |-> ppn,
                       walltime |-> arg(kw, "walltime", DefaultWalltime),
                       queue |-> arg(kw, "queue", DefaultQueue),
                       out_filename |-> IF arg(kw, "out", None) = None
                                        THEN sh_filename \o DotOut ELSE The(kw.out),
                       err_filename |-> IF arg(kw, "err", None) = None
                                        THEN sh_filename \o DotErr ELSE The(kw.err),
                       account |-> arg(kw, "account", DefaultAccount),
                       max_running |-> arg(kw, "max_running", None),
                       submit |-> arg(kw, "submit", TRUE),
                       chunksize |-> arg(kw, "chunksize", None)]]

\* the state the calls act on: the file system, the runs of qsub, the
\* Submitters other Submitters have constructed, the scripts written, and
\* the exception on its way out
World(fs, qs, ss, rs) ==
    [files |-> fs, qsub_calls |-> qs, subs |-> ss, renders |-> rs, exc |-> "none"]

raise(w, e) == [w EXCEPT !.exc = e]

\* submit_job, were the submit flag not looked at
submit_job_always(o, w, qout) ==
    LET w1 == [w EXCEPT !.qsub_calls =
                   Append(@, [script |-> o.sh_filename, output |-> qout])]
    IN  IF findall_digits(qout) = <<>> THEN raise(w1, "IndexError") ELSE w1

\* lines 277-287 of job: qsub is run on the script when submit is set; the
\* job id is the first run of digits of its output, qout
submit_job(o, w, qout) ==
    IF o.submit
    THEN LET w1 == [w EXCEPT !.qsub_calls =
                        Append(@, [script |-> o.sh_filename, output |-> qout])]
         IN  IF findall_digits(qout) = <<>> THEN raise(w1, "IndexError") ELSE w1
    ELSE w

\* the keyword arguments of the call at lines 238-241, for chunk i (from 0)
split_call(o, i) ==
    LET lo == i * MAX_ARRAY_JOBS + 1
        hi == IF lo + MAX_ARRAY_JOBS - 1 < Len(o.commands)
              THEN lo + MAX_ARRAY_JOBS - 1 ELSE Len(o.commands)
    IN  [commands |-> PyList(SubSeq(o.commands, lo, hi)),
         job_name |-> o.job_name \o format_d(i + 1),
         sh |-> Some(rstrip(o.sh_filename, {".", "s", "h"})
                        \o format_d(i + 1) \o DotSh),
         array |-> Some(TRUE),
         walltime |-> o.walltime,
         ppn |-> o.ppn,
         nodes |-> o.nodes,
         queue |-> o.queue,
         queue_type |-> queue_type(o),
         write_and_submit |-> TRUE]

\* how many chunks line 232's range(0, len(commands), MAX_ARRAY_JOBS) gives
split_chunks(o) == (Len(o.commands) + MAX_ARRAY_JOBS - 1) \div MAX_ARRAY_JOBS

RECURSIVE construct(_, _, _), job(_, _, _, _), split_loop(_, _, _, _)

\* Submitter(**kw) called by a Submitter: both calls in the source (lines
\* 141-146 and 238-241) leave chunksize None, so __init__ ends in job()
construct(kw, w, qout) ==
    LET r == new(kw)
    IN  IF r.exc /= "none" THEN raise(w, r.exc)
        ELSE job(r.obj, [w EXCEPT !.subs = Append(@, r.obj)], qout,
                 CHOOSE order \in KeyOrders(r.obj.additional_resources) : TRUE)

\* lines 234-242 of job: one Submitter per chunk, from chunk i on; an
\* exception leaves the loop
split_loop(o, i, w, qout) ==
    IF i >= split_chunks(o) THEN w
    ELSE LET w1 == construct(split_call(o, i), w, qout)
         IN  IF w1.exc /= "none" THEN w1 ELSE split_loop(o, i + 1, w1, qout)

\* Submitter.job: qout is what qsub prints, order the order in which
\* additional_resources hands out its keys
job(o, w, qout, order) ==
    IF Len(o.commands) > MAX_ARRAY_JOBS /\ truthy(array(o))
    THEN split_loop(o, 0, w, qout)
    ELSE submit_job(o,
                    [w EXCEPT !.files = open_w(@, o.sh_filename, script(o, order)),
                              !.renders = Append(@, [job_name |-> o.job_name,
                                                     sh |-> o.sh_filename])],
                    qout)

\* lines 129-131 of __init__: the number of chunks
chunks(o) ==
    LET c == Len(o.commands) \div The(o.chunksize)
    IN  IF Len(o.commands) % The(o.chunksize) /= 0 THEN c + 1 ELSE c

\* the keyword arguments of the call at lines 141-146, for loop value k
chunk_call(o, k) ==
    LET c == The(o.chunksize)
        start == k * c
        stop == IF (k + 1) * c < Len(o.commands) THEN (k + 1) * c ELSE Len(o.commands)
        suffix == <<"-">> \o format_d(k) \o DotSh
    IN  [commands |-> PyList(SubSeq(o.commands, start + 1, stop)),
         job_name |-> o.job_name \o format_d(k),
         queue_type |-> queue_type(o),
         sh |-> Some(replace(o.sh_filename, DotSh, suffix)),
         array |-> array(o),
         nodes |-> o.nodes,
         ppn |-> o.ppn,
         walltime |-> o.walltime,
         queue |-> o.queue,
         account |-> o.account,
         out |-> Some(replace(o.out_filename, DotSh, suffix)),
         err |-> Some(replace(o.err_filename, DotSh, suffix)),
         max_running |-> o.max_running,
         submit |-> o.submit,
         chunksize |-> None]

(***************************************************************************)
(* parser.py                                                               *)
(***************************************************************************)
\* list(range(501)): the slots of the list commands_from_sh returns
PARSER_SLOTS == 501

\* the text of a file: its writes, one after the other
read(writes) == join(writes)

\* "for line in f": the lines of a text, each with its newline (the text is
\* cut at a newline near its middle, and the halves are read the same way)
RECURSIVE readlines(_)
readlines(t) ==
    IF Len(t) = 0 THEN <<>>
    ELSE IF \A k \in 1..(Len(t) - 1) : t[k] /= "\n" THEN <<t>>
    ELSE LET mid == (Len(t) + 1) \div 2
             after == \E k \in mid..(Len(t) - 1) : t[k] = "\n"
             i == IF after
                  THEN CHOOSE k \in mid..(Len(t) - 1) :
                          t[k] = "\n" /\ \A j \in mid..(k - 1) : t[j] /= "\n"
                  ELSE CHOOSE k \in 1..(mid - 1) :
                          t[k] = "\n" /\ \A j \in (k + 1)..(mid - 1) : t[j] /= "\n"
         IN  readlines(SubSeq(t, 1, i)) \o readlines(SubSeq(t, i + 1, Len(t)))

\* re.search('\[(\d+)\]', s): the group of the leftmost match, None without one
re_search_index(s) ==
    LET starts == {i \in 1..Len(s) :
                      /\ s[i] = "["
                      /\ \E j \in (i + 2)..Len(s) :
                            s[j] = "]" /\ \A k \in (i + 1)..(j - 1) : isdigit(s[k])}
    IN  IF starts = {} THEN None
        ELSE LET i == CHOOSE a \in starts : \A b \in starts : a <= b
                 j == CHOOSE b \in (i + 2)..Len(s) :
                          s[b] = "]" /\ \A k \in (i + 1)..(b - 1) : isdigit(s[k])
             IN  Some(SubSeq(s, i + 1, j - 1))

\* lines 30-41 for one line: the (index, command) it assigns, or the
\* exception it raises; a line that does not start with cmd assigns nothing
parse_line(line) ==
    IF ~startswith(line, cmd) THEN [exc |-> "none", assigns |-> FALSE]
    ELSE LET parts == split(line, "=")
         IN  IF Len(parts) /= 2 THEN [exc |-> "ValueError"]
             ELSE LET matched == re_search_index(parts[1])
                  IN  IF matched = None THEN [exc |-> "AttributeError"]
                      ELSE IF int(The(matched)) >= PARSER_SLOTS
                           THEN [exc |-> "IndexError"]
                           ELSE [exc |-> "none", assigns |-> TRUE,
                                 index |-> int(The(matched)),
                                 command |-> strip(parts[2], {"\"", "\n"})]

\* lines 28-41, the loop over lines lo..hi: the first exception raised, or
\* else every slot assigned with the last command assigned to it (the range
\* is halved: the right half runs after the left one, so its exception counts
\* only if the left raised none, and its assignments win)
RECURSIVE parse_lines(_, _, _)
parse_lines(lines, lo, hi) ==
    IF lo > hi THEN [exc |-> "none", slots |-> <<>>]
    ELSE IF lo = hi
    THEN LET r == parse_line(lines[lo])
         IN  IF r.exc /= "none" THEN [exc |-> r.exc]
             ELSE IF r.assigns
                  THEN [exc |-> "none", slots |-> (r.index :> r.command)]
                  ELSE [exc |-> "none", slots |-> <<>>]
    ELSE LET h == (lo + hi) \div 2
             l == parse_lines(lines, lo, h)
         IN  IF l.exc /= "none" THEN l
             ELSE LET r == parse_lines(lines, h + 1, hi)
                  IN  IF r.exc /= "none" THEN r
                      ELSE [exc |-> "none", slots |-> r.slots @@ l.slots]

\* commands_from_sh on a file holding `writes`; a slot is [int |-> i], the
\* number range(501) put there, or [str |-> s], a command read from the file
commands_from_sh(writes) ==
    LET lines == readlines(read(writes))
        r == parse_lines(lines, 1, Len(lines))
    IN  IF r.exc /= "none" THEN [exc |-> r.exc, commands |-> <<>>]
        ELSE [exc |-> "none",
              commands |-> [i \in 0..(PARSER_SLOTS - 1) |->
                              IF i \in DOMAIN r.slots THEN [str |-> r.slots[i]]
                              ELSE [int |-> i]]]

(***************************************************************************)
(* The calls the model makes                                               *)
(***************************************************************************)
\* the longest list of arbitrary command strings
MaxCmds == 2

\* the longest command list of the small chunked calls
MaxChunkCmds == 3

\* how many add_resource calls the caller makes
MaxAdds == 2

\* how many times the caller calls job() itself
MaxJobCalls == 1

\* hostnames: one of each cluster the code knows, and one it does not
Hostnames ==
    {tscc \o <<"-","1">>, oolite, compute \o <<"-","0">>, <<"m","a","c">>}

\* commands: a plain one, one holding "=", one in double quotes
CmdStrings == {<<"l","s">>, <<"a","=","1">>, <<"\"","x","\"">>}

SmallLists == UNION {[1..n -> CmdStrings] : n \in 0..MaxCmds}

\* a list of n distinct commands: c1, c2, ...
NumberedList(n) == [i \in 1..n |-> <<"c">> \o format_d(i)]

\* what qsub prints: a job id, or a message with no digit in it
QsubOutputs == {<<"4","2",".","t">>, <<"n","o">>}

ResourceKeys == {DashL, <<"-","M">>}
ResourceValues == {<<"m","e","m","=","4","G">>, <<"m","e","m","=","8","G">>}

\* a keyword that is left out, or given one of vals
Opt(name, vals) == {<<>>} \cup {name :> v : v \in vals}

JobName == <<"j">>

\* calls that leave the dialect, the array flag or both to the defaults
DialectCalls ==
    {[commands |-> cs, job_name |-> JobName, ppn |-> MAX_PPN,
      submit |-> FALSE] @@ q @@ a :
        cs \in {PyStr(<<"l","s">>), PyList(<<<<"l","s">>>>)},
        q \in Opt("queue_type", {None, Some(PBS), Some(SGE)}),
        a \in Opt("array", {Some(TRUE), Some(FALSE)})}

\* calls that ask for one processor per node more than the limit
OverPpnCalls ==
    {[commands |-> PyList(<<<<"l","s">>>>), job_name |-> JobName, ppn |-> MAX_PPN + 1]
        @@ q @@ a @@ s @@ c :
        q \in Opt("queue_type", {None, Some(PBS)}),
        a \in Opt("array", {Some(TRUE)}),
        s \in Opt("submit", {FALSE}),
        c \in Opt("chunksize", {Some(1)})}

\* array scripts of short lists of arbitrary commands
ArrayCalls ==
    {[commands |-> PyList(cs), job_name |-> JobName, array |-> Some(TRUE),
      submit |-> FALSE] @@ q :
        cs \in SmallLists,
        q \in {[queue_type |-> Some(PBS)], [queue_type |-> Some(SGE)],
               [queue_type |-> Some(PBS), max_running |-> Some(2)]}}

\* the file names a chunked call is given: none, a script that is no .sh,
\* or log files
ChunkNames ==
    {<<>>,
     [sh |-> Some(<<"r",".","t","x","t">>)],
     [out |-> Some(<<"o",".","l","o","g">>), err |-> Some(<<"e",".","s","h",".","e">>)]}

\* chunked calls on short lists
ChunkCalls ==
    {[commands |-> PyList(NumberedList(n)), job_name |-> JobName,
      queue_type |-> Some(PBS), array |-> Some(a), submit |-> s,
      chunksize |-> Some(c)] @@ names :
        n \in 0..MaxChunkCmds, c \in 1..2, a \in BOOLEAN, s \in BOOLEAN,
        names \in ChunkNames}

\* chunked calls whose chunks are at and over the array limit
BigChunkCalls ==
    {[commands |-> PyList(NumberedList(2 * c)), job_name |-> JobName,
      queue_type |-> Some(PBS), array |-> Some(a), submit |-> s,
      chunksize |-> Some(c)] :
        c \in {MAX_ARRAY_JOBS, MAX_ARRAY_JOBS + 1}, a \in BOOLEAN, s \in BOOLEAN}

\* unchunked calls on lists at and over the array limit
SplitCalls ==
    {[commands |-> PyList(NumberedList(n)), job_name |-> JobName] @@ a @@ s :
        n \in {MAX_ARRAY_JOBS, MAX_ARRAY_JOBS + 1, 2 * MAX_ARRAY_JOBS + 200},
        a \in Opt("array", {Some(TRUE)}),
        s \in Opt("submit", {FALSE})}

\* the calls made on host h: those that give both the dialect and the array
\* flag, which the hostname cannot touch, are made on one host only
Calls(h) ==
    DialectCalls \cup OverPpnCalls \cup SplitCalls
        \cup (IF h = oolite THEN ArrayCalls \cup ChunkCalls \cup BigChunkCalls ELSE {})

\* the calls whose scripts are read back by commands_from_sh
ParseCalls ==
    ArrayCalls
        \cup {[commands |-> PyList(cs), job_name |-> JobName, queue_type |-> Some(q),
               array |-> Some(FALSE), submit |-> FALSE] :
                 cs \in SmallLists, q \in {PBS, SGE}}

\* the calls whose object is given more resources and rendered again
ResourceCalls ==
    {[commands |-> PyList(NumberedList(2)), job_name |-> JobName,
      queue_type |-> Some(q), array |-> Some(a)] @@ s @@ c :
        q \in {PBS, SGE}, a \in BOOLEAN,
        s \in Opt("submit", {FALSE}),
        c \in Opt("chunksize", {Some(1)})}

(***************************************************************************)
(* The state machine                                                       *)
(***************************************************************************)
NotParsed == [file |-> <<>>, exc |-> "none", commands |-> <<>>]

Init ==
    /\ HOSTNAME \in Hostnames
    /\ call = <<>>
    /\ pc = "idle"
    /\ self = <<>>
    /\ chunk = 0
    /\ files = <<>>
    /\ qsub_calls = <<>>
    /\ subs = <<>>
    /\ renders = <<>>
    /\ exc = "none"
    /\ adds = <<>>
    /\ njobs = 0
    /\ parsed = NotParsed

\* the caller's Submitter(**kw) for a kw of `calls`, lines 93-131: with no
\* chunksize the whole call, job() included; with one, up to the chunk loop
SubmitterInit(calls) ==
    /\ pc = "idle"
    /\ \E kw \in calls, qout \in QsubOutputs :
          LET r == new(kw)
              w0 == World(files, qsub_calls, subs, renders)
          IN  /\ call' = kw
              /\ IF r.exc /= "none"
                 THEN /\ pc' = "raised"
                      /\ exc' = r.exc
                      /\ self' = IF r.exc = "ValueError" THEN r.obj ELSE self
                      /\ UNCHANGED <<files, qsub_calls, subs, renders>>
                 ELSE IF r.obj.chunksize = None
                 THEN \E order \in KeyOrders(r.obj.additional_resources) :
                        LET w1 == job(r.obj, w0, qout, order)
                        IN  /\ self' = r.obj
                            /\ pc' = IF w1.exc = "none" THEN "done" ELSE "raised"
                            /\ exc' = w1.exc
                            /\ files' = w1.files
                            /\ qsub_calls' = w1.qsub_calls
                            /\ subs' = w1.subs
                            /\ renders' = w1.renders
                 ELSE /\ self' = r.obj
                      /\ pc' = IF chunks(r.obj) = 0 THEN "done" ELSE "chunks"
                      /\ exc' = "none"
                      /\ UNCHANGED <<files, qsub_calls, subs, renders>>
    /\ UNCHANGED <<HOSTNAME, chunk, adds, njobs, parsed>>

\* one turn of the chunk loop, lines 132-146: the Submitter of chunk `chunk`
\* is constructed, which writes its script and submits it
ChunkIter ==
    /\ pc = "chunks"
    /\ \E qout \in QsubOutputs :
          LET w1 == construct(chunk_call(self, chunk),
                              World(files, qsub_calls, subs, renders), qout)
              last == chunk + 1 >= chunks(self)
          IN  /\ files' = w1.files
              /\ qsub_calls' = w1.qsub_calls
              /\ subs' = w1.subs
              /\ renders' = w1.renders
              /\ exc' = w1.exc
              /\ pc' = IF w1.exc /= "none" THEN "raised"
                       ELSE IF last THEN "done" ELSE "chunks"
              /\ chunk' = IF w1.exc = "none" /\ ~last THEN chunk + 1 ELSE chunk
    /\ UNCHANGED <<HOSTNAME, call, self, adds, njobs, parsed>>

\* the caller's self.add_resource(kw, value)
AddResource ==
    /\ pc = "done"
    /\ Len(adds) < MaxAdds
    /\ \E k \in ResourceKeys, v \in ResourceValues :
          /\ self' = [self EXCEPT !.additional_resources = add_resource(@, k, v)]
          /\ adds' = Append(adds, <<k, v>>)
    /\ UNCHANGED <<HOSTNAME, call, pc, chunk, files, qsub_calls, subs, renders, exc,
                   njobs, parsed>>

\* the caller's self.job()
Job ==
    /\ pc = "done"
    /\ njobs < MaxJobCalls
    /\ \E qout \in QsubOutputs, order \in KeyOrders(self.additional_resources) :
          LET w1 == job(self, World(files, qsub_calls, subs, renders), qout, order)
          IN  /\ files' = w1.files
              /\ qsub_calls' = w1.qsub_calls
              /\ subs' = w1.subs
              /\ renders' = w1.renders
              /\ exc' = w1.exc
    /\ njobs' = njobs + 1
    /\ UNCHANGED <<HOSTNAME, call, pc, self, chunk, adds, parsed>>

\* the caller's commands_from_sh(f) on a file that exists
CommandsFromSh ==
    /\ pc \in {"done", "raised"}
    /\ \E f \in DOMAIN files :
          parsed' = [file |-> f] @@ commands_from_sh(files[f])
    /\ UNCHANGED <<HOSTNAME, call, pc, self, chunk, files, qsub_calls, subs, renders,
                   exc, adds, njobs>>

\* Constructing a Submitter: the call and, for a chunked one, its loop
Next == SubmitterInit(Calls(HOSTNAME)) \/ ChunkIter

Spec == Init /\ [][Next]_vars

\* Rendering a script and reading it back
InitOneHost == Init /\ HOSTNAME = oolite

ParseNext == SubmitterInit(ParseCalls) \/ CommandsFromSh

SpecParse == InitOneHost /\ [][ParseNext]_vars

\* Constructing a Submitter, then adding resources and rendering again
ResourceNext == SubmitterInit(ResourceCalls) \/ ChunkIter \/ AddResource \/ Job

SpecResources == InitOneHost /\ [][ResourceNext]_vars

(***************************************************************************)
(* The claims                                                              *)
(***************************************************************************)
Ceil(n, c) == (n + c - 1) \div c

Min(a, b) == IF a < b THEN a ELSE b

Terminated == pc \in {"done", "raised"}

\* the dialect the hostname stands for
HostDialect ==
    IF contains(HOSTNAME, oolite) \/ contains(HOSTNAME, compute) THEN Some(SGE)
    ELSE IF contains(HOSTNAME, tscc) THEN Some(PBS) ELSE None

\* some script was written by a Submitter of this name
RenderedBy(name) == \E i \in 1..Len(renders) : renders[i].job_name = name

\* qsub's output holds no job id
Failed(q) == \A i \in 1..Len(q.output) : ~isdigit(q.output[i])

\* C1: once Submitter(...) has ended for an array-mode call with no chunk
\* size and N > 500 commands, there are ceil(N/500) sub-Submitters, the k-th
\* holding commands 500(k-1)+1 .. min(500k, N), named name+k with script
\* stem+k+".sh", each with a script written, and no script written by the
\* original.
C1_ArraySplit ==
    (/\ Terminated
     /\ exc /= "ValueError"
     /\ "chunksize" \notin DOMAIN call
     /\ Len(self.commands) > MAX_ARRAY_JOBS
     /\ truthy(array(self)))
    => LET N == Len(self.commands)
           stem == SubSeq(self.sh_filename, 1, Len(self.sh_filename) - Len(DotSh))
       IN  /\ Len(subs) = Ceil(N, MAX_ARRAY_JOBS)
           /\ \A k \in 1..Len(subs) :
                /\ subs[k].commands =
                      SubSeq(self.commands, MAX_ARRAY_JOBS * (k - 1) + 1,
                             Min(MAX_ARRAY_JOBS * k, N))
                /\ subs[k].job_name = call.job_name \o format_d(k)
                /\ subs[k].sh_filename = stem \o format_d(k) \o DotSh
                /\ RenderedBy(subs[k].job_name)
           /\ ~RenderedBy(call.job_name)

\* C2: when an array script rendered (submit off) from 1 to 500 commands has
\* been read by commands_from_sh, the call raised nothing and slot i of the
\* list it returned is the i-th command, for every i from 1 to N.
C2_RoundTrip ==
    (/\ pc = "done"
     /\ truthy(array(self))
     /\ ~self.submit
     /\ Len(self.commands) \in 1..MAX_ARRAY_JOBS
     /\ parsed.file = self.sh_filename)
    => /\ parsed.exc = "none"
       /\ \A i \in 1..Len(self.commands) :
             parsed.commands[i] = [str |-> self.commands[i]]

\* the Submitter that wrote the last script
LastRenderer ==
    IF subs /= <<>> /\ subs[Len(subs)].job_name = renders[Len(renders)].job_name
    THEN subs[Len(subs)] ELSE self

\* the writes W of a script hold one cmd[i]="..." write per command of o, for
\* i = 1..N in the order of the list, then one eval write, which names the
\* task variable of o's dialect
ArrayScriptOK(o, W) ==
    LET N == Len(o.commands)
        A == {k \in 1..Len(W) : startswith(W[k], CmdOpen)}
        D == {k \in 1..Len(W) : startswith(W[k], <<"e","v","a","l">>)}
    IN  /\ Cardinality(A) = N
        /\ Cardinality(D) = 1
        /\ \A d \in D :
             /\ A = (d - N)..(d - 1)
             /\ \A i \in 1..N :
                   W[d - N + i - 1] =
                      CmdOpen \o format_d(i) \o CmdMid \o o.commands[i] \o CmdClose
             /\ queue_type(o) = Some(PBS)
                   => W[d] = EvalOpen \o PBS_ARRAYID \o EvalClose
             /\ queue_type(o) = Some(SGE)
                   => W[d] = EvalOpen \o SGE_TASK_ID \o EvalClose

\* C3: a script just written in array mode from at most 500 commands holds
\* exactly one cmd[i]="..." line per command, i from 1 to N in the order of
\* the list, followed by exactly one dispatch line.
C3_ArrayScript ==
    (/\ renders /= <<>>
     /\ LastRenderer.job_name = renders[Len(renders)].job_name
     /\ truthy(array(LastRenderer))
     /\ Len(LastRenderer.commands) <= MAX_ARRAY_JOBS)
    => ArrayScriptOK(LastRenderer, files[renders[Len(renders)].sh])

C3_Witness ==
    /\ pc = "done"
    /\ renders /= <<>>
    /\ LastRenderer.job_name = renders[Len(renders)].job_name
    /\ truthy(array(LastRenderer))
    /\ Len(LastRenderer.commands) = MAX_ARRAY_JOBS
    /\ ArrayScriptOK(LastRenderer, files[renders[Len(renders)].sh])

\* the call asks for the PBS dialect: by name, by default, or by hostname
AsksPBS ==
    \/ "queue_type" \notin DOMAIN call
    \/ ("queue_type" \in DOMAIN call /\ call.queue_type = Some(PBS))
    \/ ("queue_type" \in DOMAIN call /\ call.queue_type = None
            /\ HostDialect = Some(PBS))

\* C4: a call for the PBS dialect with more than 16 processors per node
\* raises ValueError, writes no file and runs no qsub, whatever the array
\* flag, the chunk size and the submit flag are.
C4_PpnRejected ==
    (pc /= "idle" /\ AsksPBS /\ arg(call, "ppn", 1) > 16)
    => /\ pc = "raised"
       /\ exc = "ValueError"
       /\ DOMAIN files = {}
       /\ qsub_calls = <<>>
       /\ subs = <<>>
       /\ renders = <<>>

C4_Witness ==
    /\ pc = "raised"
    /\ exc = "ValueError"
    /\ call.ppn = 17
    /\ "queue_type" \in DOMAIN call /\ call.queue_type = None
    /\ "chunksize" \in DOMAIN call
    /\ "submit" \notin DOMAIN call
    /\ DOMAIN files = {}

\* the values added under keyword k: by __init__ for SGE, then by the caller
AddedValues(k) ==
    (IF queue_type(self) = Some(SGE) /\ k = DashL THEN <<bigmem, h_vmem>> ELSE <<>>)
        \o LET mine == SelectSeq(adds, LAMBDA a : a[1] = k)
           IN  [j \in 1..Len(mine) |-> mine[j][2]]

DirectiveLine(o, k, v) == str(queue_param_prefix(o)) \o Space \o k \o Space \o v \o NL

\* the writes of W that are directive lines of keyword k for an added value
DirectiveLines(o, W, k) ==
    SelectSeq(W, LAMBDA x :
        \E v \in ResourceValues \cup {bigmem, h_vmem} : x = DirectiveLine(o, k, v))

\* the script of the top-level Submitter was written in this step
SelfRendered ==
    /\ Len(renders') = Len(renders) + 1
    /\ renders'[Len(renders')].job_name = self'.job_name

\* C5: a script holds one directive line "<prefix> k v" for every value added
\* under k before it was written, in the order of the add_resource calls, a
\* value added twice twice.
C5_ResourceLines ==
    [][SelfRendered =>
         \A k \in ResourceKeys :
            DirectiveLines(self', files'[self'.sh_filename], k) =
               [j \in 1..Len(AddedValues(k)') |->
                   DirectiveLine(self', k, AddedValues(k)'[j])]]_vars

C5_Witness ==
    /\ pc = "done"
    /\ njobs = 1
    /\ Len(adds) = 2
    /\ adds[1][1] = adds[2][1]
    /\ LET W == files[self.sh_filename]
       IN  \E a, b \in 1..Len(W) :
              /\ a < b
              /\ W[a] = DirectiveLine(self, adds[1][1], adds[1][2])
              /\ W[b] = DirectiveLine(self, adds[2][1], adds[2][2])

\* C6: with no dialect given (the keyword left out, or None), the dialect is
\* the one the hostname stands for, and none for an unknown hostname.
C6_DialectFromHost ==
    (pc /= "idle"
        /\ ("queue_type" \notin DOMAIN call \/ call.queue_type = None))
    => queue_type(self) = HostDialect

\* C7: in a chunked call with submission on, once the call has
\* ended, a failed qsub has not kept the later chunks from being constructed
\* and submitted.
C7_LaterChunksRun ==
    (/\ Terminated
     /\ exc /= "ValueError"
     /\ "chunksize" \in DOMAIN call
     /\ \E i \in 1..Len(qsub_calls) : Failed(qsub_calls[i]))
    => /\ Len(subs) = chunks(self)
       /\ Len(qsub_calls) = chunks(self)

\* C8: once a call with chunk size c, N commands and submit off has ended,
\* there are ceil(N/c) sub-Submitters, the k-th (from 0) holding commands
\* k*c .. min((k+1)*c, N)-1, and the original has written no script.
C8_Chunks ==
    (/\ Terminated
     /\ exc /= "ValueError"
     /\ "chunksize" \in DOMAIN call
     /\ ~self.submit)
    => LET N == Len(self.commands)
           c == The(call.chunksize)
       IN  /\ Len(subs) = Ceil(N, c)
           /\ \A k \in 1..Len(subs) :
                 subs[k].commands =
                    SubSeq(self.commands, (k - 1) * c + 1, Min(k * c, N))
           /\ ~RenderedBy(call.job_name)

\* C9: the sub-Submitters of one call have pairwise different script, stdout
\* and stderr paths.
C9_DistinctFiles ==
    \A i, j \in 1..Len(subs) :
        i /= j => /\ subs[i].sh_filename /= subs[j].sh_filename
                  /\ subs[i].out_filename /= subs[j].out_filename
                  /\ subs[i].err_filename /= subs[j].err_filename

\* C10: a call with submit=False runs no qsub, by itself or by the
\* sub-Submitters of its chunks.
C10_NoQsub ==
    (pc /= "idle" /\ arg(call, "submit", TRUE) = FALSE) => qsub_calls = <<>>

C10_Witness ==
    /\ pc = "done"
    /\ arg(call, "submit", TRUE) = FALSE
    /\ "chunksize" \in DOMAIN call
    /\ Len(subs) = 2
    /\ Len(renders) = 2
    /\ qsub_calls = <<>>

=============================================================================
